---- MODULE Spec2Model ----
(***************************************************************************)
(* Plant Doctor AI (src/app.py): the three identification adapters, the    *)
(* identification orchestrator smart_plant_detection and the chat          *)
(* orchestrator chat_with_ai.                                              *)
(*                                                                         *)
(* A provider's answer text is a sequence of lexical tokens.  Each token   *)
(* stands for a fixed run of characters (Width gives its length), so that  *)
(* the regular expressions, str.strip, json.loads and the [:500] slice of  *)
(* the source can be computed on it as Python computes them on the         *)
(* characters.                                                             *)
(*                                                                         *)
(* The pages of the application (Plant Detection, AI Chat, My Plants) act  *)
(* on the session state: plant_context, chat_history, detection_history.   *)
(***************************************************************************)
EXTENDS Naturals, Integers, Sequences, FiniteSets, TLC

VARIABLES keys, op, pc, image, lastResponse, result, ret, adapterCalls,
          httpLog, warnings, userMessage,
          context, requests,
          plant_context, chat_history, detection_history,
          mock, prevCall

vars == <<keys, op, pc, image, lastResponse, result, ret, adapterCalls,
          httpLog, warnings, userMessage, context, requests,
          plant_context, chat_history, detection_history, mock, prevCall>>

\* st.session_state
session == <<plant_context, chat_history, detection_history>>

\* The answers fixed for the providers of a repeated call, and the call
\* before this one.
replay == <<mock, prevCall>>

\* Longest provider answer text, in tokens.
MaxLen == 3

\* text_content[:500]
DescLimit == 500

Providers == {"Mistral", "Groq", "Together"}

(***************************************************************************)
(* Text.                                                                   *)
(*   "FENCE"      three backticks                                          *)
(*   "json"       the letters json (a fence opener is FENCE then json)     *)
(*   " "          one whitespace character                                 *)
(*   "{" "}"      braces                                                   *)
(*   "name:Rose"  the JSON member "plant_name":"Rose"                      *)
(*   "conf:92"    the JSON member "confidence":92                          *)
(*   "prose"      a run of 250 characters of plain prose                   *)
(* The pages read more members than the adapters do; one more token holds  *)
(* them all:                                                               *)
(*   "plant:Tomato"  the members "plant_name":"Tomato",                    *)
(*                   "scientific_name":"Solanum lycopersicum",             *)
(*                   "family":"Solanaceae","confidence":95                 *)
(***************************************************************************)
Alphabet == {"FENCE", "json", " ", "{", "}", "name:Rose", "conf:92", "prose"}

Width(tok) ==
    CASE tok = "FENCE" -> 3
      [] tok = "json" -> 4
      [] tok = " " -> 1
      [] tok = "{" -> 1
      [] tok = "}" -> 1
      [] tok = "name:Rose" -> 19
      [] tok = "conf:92" -> 15
      [] tok = "prose" -> 250
      [] tok = "plant:Tomato" -> 100

Texts == UNION {[1..n -> Alphabet] : n \in 0..MaxLen}

\* The texts an answer with a status other than 200 may carry.
ErrorTexts == {<<"prose">>}

RECURSIVE TextLen(_)
TextLen(s) == IF s = <<>> THEN 0 ELSE Width(Head(s)) + TextLen(Tail(s))

\* The first index >= i of s that holds no whitespace (Len(s)+1 if none): \s*
RECURSIVE SkipWs(_, _)
SkipWs(s, i) == IF i <= Len(s) /\ s[i] = " " THEN SkipWs(s, i + 1) ELSE i

\* re.sub(r'FENCEjson\s*|\s*FENCE', '', s), scanning from index i.  At each
\* position the first alternative is tried first; a position where neither
\* matches keeps its character.
RECURSIVE SubFencesFrom(_, _)
SubFencesFrom(s, i) ==
    IF i > Len(s) THEN <<>>
    ELSE IF s[i] = "FENCE" /\ i + 1 <= Len(s) /\ s[i + 1] = "json"
         THEN SubFencesFrom(s, SkipWs(s, i + 2))
    ELSE LET j == SkipWs(s, i) IN
         IF j <= Len(s) /\ s[j] = "FENCE"
         THEN SubFencesFrom(s, j + 1)
         ELSE <<s[i]>> \o SubFencesFrom(s, i + 1)

\* str.strip()
RECURSIVE LStrip(_)
LStrip(s) == IF s # <<>> /\ Head(s) = " " THEN LStrip(Tail(s)) ELSE s

RECURSIVE RStrip(_)
RStrip(s) ==
    IF s # <<>> /\ s[Len(s)] = " " THEN RStrip(SubSeq(s, 1, Len(s) - 1)) ELSE s

Strip(s) == RStrip(LStrip(s))

\* text_content = re.sub(r'FENCEjson\s*|\s*FENCE', '', text_content).strip()
CleanText(s) == Strip(SubFencesFrom(s, 1))

\* re.search(r'\{[\s\S]*\}', s): from the first "{" to the LAST "}" after it
\* (the star is greedy).  <<>> stands for None: a match is never empty.
SearchObject(s) ==
    LET opens == {i \in 1..Len(s) : s[i] = "{"}
    IN  IF opens = {} THEN <<>>
        ELSE LET first == CHOOSE i \in opens : \A k \in opens : i <= k
                 closes == {j \in first + 1..Len(s) : s[j] = "}"}
             IN  IF closes = {} THEN <<>>
                 ELSE LET last == CHOOSE j \in closes : \A k \in closes : k <= j
                      IN  SubSeq(s, first, last)

IsMember(tok) == tok \in {"name:Rose", "conf:92", "plant:Tomato"}

MemberDict(tok) ==
    CASE tok = "name:Rose" -> [plant_name |-> "Rose"]
      [] tok = "conf:92" -> [confidence |-> 92]
      [] tok = "plant:Tomato" ->
             [plant_name |-> "Tomato",
              scientific_name |-> "Solanum lycopersicum",
              family |-> "Solanaceae",
              confidence |-> 95]

NotWs(tok) == tok # " "

\* json.loads(m) for a string m that starts with "{" and ends with "}".  JSON
\* allows whitespace between the tokens of an object and wants a comma between
\* two members; no token is a comma alone, so an object holds at most one
\* member token.  ok = FALSE stands for json.JSONDecodeError.
JsonLoads(m) ==
    LET inner == SelectSeq(SubSeq(m, 2, Len(m) - 1), NotWs)
    IN  IF inner = <<>> THEN [ok |-> TRUE, value |-> <<>>]
        ELSE IF Len(inner) = 1 /\ IsMember(inner[1])
             THEN [ok |-> TRUE, value |-> MemberDict(inner[1])]
        ELSE [ok |-> FALSE]

\* s[:k] in characters: whole tokens while they fit, then the first n
\* characters of the token that is cut.
RECURSIVE Slice(_, _)
Slice(s, k) ==
    IF s = <<>> \/ k <= 0 THEN <<>>
    ELSE LET w == Width(Head(s))
         IN  IF w <= k
             THEN <<[t |-> Head(s), n |-> w]>> \o Slice(Tail(s), k - w)
             ELSE <<[t |-> Head(s), n |-> k]>>


(***************************************************************************)
(* Python values.                                                          *)
(***************************************************************************)
\* A function body ends by returning a value or by raising an exception.
Return(v) == [raised |-> FALSE, value |-> v]
Raise(e) == [raised |-> TRUE, exc |-> e]

\* No value yet (the call has not returned).
NoValue == [type |-> "unset"]

PyStr(s) == [type |-> "str", value |-> s]
PyNone == [type |-> "NoneType"]

\* f"Error: {str(e)}"
ErrorMessage(e) ==
    CASE e = "timeout" -> "Error: read timed out"
      [] e = "connection" -> "Error: connection refused"
      [] e = "encode" -> "Error: cannot write mode RGBA as JPEG"
      [] e = "json" -> "Error: Expecting value"
      [] e = "KeyError" -> "Error: 'message'"
      [] e = "IndexError" -> "Error: list index out of range"
      [] e = "TypeError" -> "Error: expected string or bytes-like object"

ExceptException_TimeoutOnly(r) ==
    IF r.raised /\ r.exc = "timeout"
    THEN Return([error |-> TRUE, message |-> ErrorMessage(r.exc)])
    ELSE r

\* except Exception as e: return {"error": True, "message": f"Error: {str(e)}"}
ExceptException(r) ==
    IF r.raised THEN Return([error |-> TRUE, message |-> ErrorMessage(r.exc)])
    ELSE r

(***************************************************************************)
(* What one requests.post can do: raise (timeout, no connection), or       *)
(* answer with a status and a body.                                        *)
(*   not_json       the body is not JSON: response.json() raises          *)
(*   empty_object   {}                                                     *)
(*   error_object   {"error": {"message": "rate limit"}}                   *)
(*   empty_choices  {"choices": []}                                        *)
(*   no_message     {"choices": [{}]}                                      *)
(*   null_content   {"choices": [{"message": {"content": null}}]}          *)
(*   text           {"choices": [{"message": {"content": <content>}}]}     *)
(***************************************************************************)
Statuses == {200, 201, 503}

Bodies(contents) ==
    {[kind |-> k] : k \in {"not_json", "empty_object", "error_object",
                            "empty_choices", "no_message", "null_content"}}
    \cup {[kind |-> "text", content |-> c] : c \in contents}

\* The bodies of an answer with a status other than 200: the code reads of
\* them only whether they are JSON and hold error.message.
ErrorBodies(contents) ==
    {[kind |-> k] : k \in {"not_json", "empty_object", "error_object"}}
    \cup {[kind |-> "text", content |-> c] : c \in contents}

\* contents: the texts a 200 answer may carry; otherContents: those an answer
\* with another status may carry.
HttpOutcomes(contents, otherContents) ==
    {[kind |-> "raise", exc |-> e] : e \in {"timeout", "connection"}}
    \cup {[kind |-> "response", status |-> 200, body |-> b] :
             b \in Bodies(contents)}
    \cup {[kind |-> "response", status |-> st, body |-> b] :
             st \in Statuses \ {200}, b \in ErrorBodies(otherContents)}

\* "choices" in result
HasChoices(body) ==
    body.kind \in {"empty_choices", "no_message", "null_content", "text"}

\* len(result["choices"]) > 0
ChoicesNonEmpty(body) == body.kind \in {"no_message", "null_content", "text"}

(***************************************************************************)
(* The uploaded image.  Pillow writes no RGBA image as JPEG: save raises   *)
(* OSError for a PNG with an alpha channel.                                *)
(***************************************************************************)
Images == {"RGB", "RGBA"}

CanEncode(img) == img = "RGB"

\* An adapter reaches requests.post when its key is set and the image encoded.
SendsRequest(keyOk, img) == keyOk /\ CanEncode(img)

Degraded_NoSlice(text, conf) ==
    [plant_name |-> "Detected Plant",
     description |-> Slice(text, TextLen(text)),
     confidence |-> conf]

\* The data of a text-only result.
Degraded(text, conf) ==
    [plant_name |-> "Detected Plant",
     description |-> Slice(text, DescLimit),
     confidence |-> conf]

\* if "plant_name" not in plant_data: ...; if "confidence" not in plant_data: ...
WithDefaults(d, conf) ==
    (d @@ [plant_name |-> "Detected Plant"]) @@ [confidence |-> conf]


(***************************************************************************)
(* detect_plant_with_groq_llama_vision                                     *)
(***************************************************************************)
\* f"API Error: {response.status_code}"
ApiError(status) ==
    CASE status = 200 -> "API Error: 200"
      [] status = 201 -> "API Error: 201"
      [] status = 503 -> "API Error: 503"

\* f"API Error: {response.status_code}{error_detail}", where error_detail is
\* f" - {error_data.get('error', {}).get('message', '')}" when the body is
\* JSON and "" when it is not.
GroqApiError(status, body) ==
    IF body.kind = "not_json" THEN ApiError(status)
    ELSE IF body.kind = "error_object"
         THEN CASE status = 200 -> "API Error: 200 - rate limit"
                [] status = 201 -> "API Error: 201 - rate limit"
                [] status = 503 -> "API Error: 503 - rate limit"
    ELSE CASE status = 200 -> "API Error: 200 - "
           [] status = 201 -> "API Error: 201 - "
           [] status = 503 -> "API Error: 503 - "

\* The inner try block of the Groq adapter, on the answer text.
GroqExtract(text_content) ==
    LET cleaned == CleanText(text_content)
        json_match == SearchObject(cleaned)
    IN  IF json_match # <<>>
        THEN LET loaded == JsonLoads(json_match)
             IN  IF loaded.ok
                 THEN [error |-> FALSE,
                       data |-> WithDefaults(loaded.value, 85),
                       raw_response |-> cleaned,
                       source |-> "Groq Llama 11B Vision"]
                 \* except json.JSONDecodeError
                 ELSE [error |-> FALSE,
                       data |-> Degraded(cleaned, 75),
                       raw_response |-> cleaned,
                       source |-> "Groq Llama Vision"]
        ELSE [error |-> FALSE,
              data |-> Degraded(cleaned, 80),
              raw_response |-> cleaned,
              source |-> "Groq Llama 11B Vision"]

\* The outer try block of the Groq adapter.
GroqTry(img, o) ==
    IF ~CanEncode(img) THEN Raise("encode")
    ELSE IF o.kind = "raise" THEN Raise(o.exc)
    ELSE IF o.status = 200
         THEN IF o.body.kind = "not_json" THEN Raise("json")
              ELSE IF HasChoices(o.body) /\ ChoicesNonEmpty(o.body)
                   THEN IF o.body.kind = "no_message" THEN Raise("KeyError")
                        ELSE IF o.body.kind = "null_content"
                             THEN Raise("TypeError")
                        ELSE Return(GroqExtract(o.body.content))
              ELSE Return([error |-> TRUE,
                           message |-> "No content in response"])
    ELSE Return([error |-> TRUE, message |-> GroqApiError(o.status, o.body)])

detect_plant_with_groq_llama_vision(keyOk, img, o) ==
    IF ~keyOk
    THEN Return([error |-> TRUE, message |-> "Groq API key not configured"])
    ELSE ExceptException(GroqTry(img, o))

(***************************************************************************)
(* detect_plant_with_mistral_vision                                        *)
(***************************************************************************)
\* The inner try block of the Mistral adapter and the return after it: the
\* bare except swallows a failed json.loads.
MistralExtract(text_content) ==
    LET cleaned == CleanText(text_content)
        json_match == SearchObject(cleaned)
        loaded == JsonLoads(json_match)
    IN  IF json_match # <<>> /\ loaded.ok
        THEN [error |-> FALSE,
              data |-> WithDefaults(loaded.value, 85),
              source |-> "Mistral Pixtral Vision"]
        ELSE [error |-> FALSE,
              data |-> Degraded(cleaned, 80),
              source |-> "Mistral Pixtral"]

MistralTry(img, o) ==
    IF ~CanEncode(img) THEN Raise("encode")
    ELSE IF o.kind = "raise" THEN Raise(o.exc)
    ELSE IF o.status = 200
         THEN IF o.body.kind = "not_json" THEN Raise("json")
              ELSE IF HasChoices(o.body)
                   THEN IF o.body.kind = "empty_choices"
                        THEN Raise("IndexError")
                        ELSE IF o.body.kind = "no_message"
                             THEN Raise("KeyError")
                        \* re.sub(None) raises inside the inner try and is
                        \* swallowed; None[:500] then raises outside it
                        ELSE IF o.body.kind = "null_content"
                             THEN Raise("TypeError")
                        ELSE Return(MistralExtract(o.body.content))
              ELSE Return([error |-> TRUE, message |-> ApiError(o.status)])
    ELSE Return([error |-> TRUE, message |-> ApiError(o.status)])

detect_plant_with_mistral_vision(keyOk, img, o) ==
    IF ~keyOk
    THEN Return([error |-> TRUE, message |-> "Mistral API key not configured"])
    ELSE ExceptException(MistralTry(img, o))

(***************************************************************************)
(* detect_plant_with_together                                              *)
(***************************************************************************)
\* The parsed object is returned as it is: this adapter fills in no default.
TogetherExtract(text_content) ==
    LET cleaned == CleanText(text_content)
        json_match == SearchObject(cleaned)
        loaded == JsonLoads(json_match)
    IN  IF json_match # <<>> /\ loaded.ok
        THEN [error |-> FALSE,
              data |-> loaded.value,
              source |-> "Together AI"]
        ELSE [error |-> FALSE,
              data |-> Degraded(cleaned, 80),
              source |-> "Together AI"]

TogetherTry(img, o) ==
    IF ~CanEncode(img) THEN Raise("encode")
    ELSE IF o.kind = "raise" THEN Raise(o.exc)
    ELSE IF o.status = 200
         THEN IF o.body.kind = "not_json" THEN Raise("json")
              ELSE IF HasChoices(o.body)
                   THEN IF o.body.kind = "empty_choices"
                        THEN Raise("IndexError")
                        ELSE IF o.body.kind = "no_message"
                             THEN Raise("KeyError")
                        ELSE IF o.body.kind = "null_content"
                             THEN Raise("TypeError")
                        ELSE Return(TogetherExtract(o.body.content))
              ELSE Return([error |-> TRUE, message |-> ApiError(o.status)])
    ELSE Return([error |-> TRUE, message |-> ApiError(o.status)])

detect_plant_with_together(keyOk, img, o) ==
    IF ~keyOk
    THEN Return([error |-> TRUE, message |-> "Together API key not configured"])
    ELSE ExceptException(TogetherTry(img, o))

Adapter_TogetherBlockCallsMistral(p, keyOk, img, o) ==
    CASE p = "Mistral" -> detect_plant_with_mistral_vision(keyOk, img, o)
      [] p = "Groq" -> detect_plant_with_groq_llama_vision(keyOk, img, o)
      [] p = "Together" -> detect_plant_with_mistral_vision(keyOk, img, o)

\* The adapter smart_plant_detection calls for provider p.
Adapter(p, keyOk, img, o) ==
    CASE p = "Mistral" -> detect_plant_with_mistral_vision(keyOk, img, o)
      [] p = "Groq" -> detect_plant_with_groq_llama_vision(keyOk, img, o)
      [] p = "Together" -> detect_plant_with_together(keyOk, img, o)


(***************************************************************************)
(* smart_plant_detection                                                   *)
(*   pc: "mistral", "groq", "together" (the three if blocks), "end" (the   *)
(*   final return), "done" (returned), "crashed" (an exception left the    *)
(*   function).                                                            *)
(*   adapterCalls: the providers whose adapter was called, in order.       *)
(*   httpLog: the providers a request was posted to, in order.             *)
(*   warnings: the providers st.warning reported as failed, in order; the  *)
(*   message shown is result.message.                                      *)
(*   lastResponse: what the last requests.post of the call met.            *)
(***************************************************************************)
AllFailedMessage ==
    "All FREE APIs failed. Please check your API keys or try again later. Make sure you have at least one valid API key configured."

\* What the adapter call of a block can meet: one HTTP outcome when it posts
\* a request, nothing otherwise.
NoRequest == [kind |-> "none"]

AdapterOutcomes(keyOk, img, contents) ==
    IF SendsRequest(keyOk, img)
    THEN HttpOutcomes(contents, ErrorTexts)
    ELSE {NoRequest}

\* The providers of a priority list whose key is set, in the list's order.
RECURSIVE Configured(_, _)
Configured(order, k) ==
    IF order = <<>> THEN <<>>
    ELSE IF k[Head(order)] THEN <<Head(order)>> \o Configured(Tail(order), k)
    ELSE Configured(Tail(order), k)

\* if MISTRAL_API_KEY: / if GROQ_API_KEY: / if TOGETHER_API_KEY:
KeySet_Always(p) == TRUE

KeySet_UntilIdentified(p) == keys[p] /\ plant_context = PyNone

KeySet(p) == keys[p]

\* One "if KEY:" block of smart_plant_detection.
TryProvider(p, here, next, contents) ==
    /\ op = "detect"
    /\ pc = here
    /\ IF ~KeySet(p)
       THEN /\ pc' = next
            /\ UNCHANGED <<lastResponse, result, ret, adapterCalls, httpLog,
                           warnings>>
       ELSE \E o \in AdapterOutcomes(keys[p], image, contents) :
              LET r == Adapter(p, keys[p], image, o)
              IN  /\ lastResponse' = o
                  /\ adapterCalls' = Append(adapterCalls, p)
                  /\ httpLog' = IF SendsRequest(keys[p], image)
                                THEN Append(httpLog, p) ELSE httpLog
                  /\ IF r.raised
                     THEN /\ pc' = "crashed"
                          /\ UNCHANGED <<result, ret, warnings>>
                     ELSE /\ result' = r.value
                          /\ IF ~r.value.error
                             THEN /\ ret' = r.value
                                  /\ pc' = "done"
                                  /\ UNCHANGED warnings
                             ELSE /\ warnings' = Append(warnings, p)
                                  /\ pc' = next
                                  /\ UNCHANGED ret
    /\ UNCHANGED <<keys, op, image, userMessage, context, requests>>
    /\ UNCHANGED <<session, replay>>

\* The identify button: smart_plant_detection(image) is entered.
StartDetection ==
    /\ pc \in {"idle", "done"}
    /\ \E img \in Images : image' = img
    /\ op' = "detect"
    /\ pc' = "mistral"
    /\ lastResponse' = NoRequest
    /\ result' = NoValue
    /\ ret' = NoValue
    /\ adapterCalls' = <<>>
    /\ httpLog' = <<>>
    /\ warnings' = <<>>
    /\ userMessage' = ""
    /\ context' = PyNone
    /\ requests' = <<>>
    /\ UNCHANGED <<keys, session, replay>>

\* if MISTRAL_API_KEY: ... detect_plant_with_mistral_vision(image_data)
DetectMistral ==
    /\ pc = "mistral"
    /\ TryProvider("Mistral", "mistral", "groq", Texts)

DetectGroq_Again ==
    /\ pc = "groq"
    /\ TryProvider("Groq", "groq", "groq", Texts)

\* if GROQ_API_KEY: ... detect_plant_with_groq_llama_vision(image_data)
DetectGroq ==
    /\ pc = "groq"
    /\ TryProvider("Groq", "groq", "together", Texts)

\* if TOGETHER_API_KEY: ... detect_plant_with_together(image_data)
DetectTogether ==
    /\ pc = "together"
    /\ TryProvider("Together", "together", "end", Texts)

DetectAllFailed_LastError ==
    /\ op = "detect"
    /\ pc = "end"
    /\ ret' = IF result = NoValue
              THEN [error |-> TRUE, message |-> AllFailedMessage]
              ELSE result
    /\ pc' = "done"
    /\ UNCHANGED <<keys, op, image, lastResponse, result, adapterCalls,
                   httpLog, warnings, userMessage, context, requests>>
    /\ UNCHANGED <<session, replay>>

\* return {"error": True, "message": "All FREE APIs failed. ..."}
DetectAllFailed ==
    /\ op = "detect"
    /\ pc = "end"
    /\ ret' = [error |-> TRUE, message |-> AllFailedMessage]
    /\ pc' = "done"
    /\ UNCHANGED <<keys, op, image, lastResponse, result, adapterCalls,
                   httpLog, warnings, userMessage, context, requests>>
    /\ UNCHANGED <<session, replay>>


(***************************************************************************)
(* chat_with_ai                                                            *)
(*   pc: "chat_groq", "chat_mistral", "chat_together" (the three if        *)
(*   blocks), "chat_end" (the final return), "done", "crashed".            *)
(***************************************************************************)
\* The source's string opens with a cross mark and a space, left out here.
ChatFailedMessage ==
    "All chat APIs failed. Please check your API keys are valid. Make sure you have at least one API key (Groq, Mistral, or Together AI) configured in your secrets.toml file."

\* The generated texts a chat provider may answer with.
ChatContents == {"", "Yes.", "Water it weekly."}

\* len(s) for the strings of the chat.
StrLen(s) ==
    CASE s = "" -> 0
      [] s = "Yes." -> 4
      [] s = "Water it weekly." -> 16
      [] s = "How to deal with aphids?" -> 24
      [] s = "How to grow tomatoes in Egypt?" -> 30
      [] s = ChatFailedMessage -> 171

UserMessages == {"How to deal with aphids?", "How to grow tomatoes in Egypt?"}

\* A block that ends without returning: control goes on to the next block.
FallThrough == [raised |-> FALSE, through |-> TRUE]

Returned(r) == ~r.raised /\ "value" \in DOMAIN r

\* The body of one try block of chat_with_ai.
ChatTry(o) ==
    IF o.kind = "raise" THEN Raise(o.exc)
    ELSE IF o.status = 200
         THEN IF o.body.kind = "not_json" THEN Raise("json")
              ELSE IF HasChoices(o.body) /\ ChoicesNonEmpty(o.body)
                   THEN IF o.body.kind = "no_message" THEN Raise("KeyError")
                        ELSE IF o.body.kind = "null_content"
                             THEN Return(PyNone)
                        ELSE Return(PyStr(o.body.content))
              ELSE FallThrough
    ELSE FallThrough

ChatBlock_NoExcept(o) == ChatTry(o)

\* try: ... except Exception as e: pass
ChatBlock(o) == LET r == ChatTry(o) IN IF r.raised THEN FallThrough ELSE r

\* dict.get(key, default); <<>> is the empty dict.
Get(d, key, default) == IF key \in DOMAIN d THEN d[key] ELSE default

\* if context: a dict is true when it is not empty, None is false.
Truthy(ctx) == ctx # PyNone /\ DOMAIN ctx # {}

GenericPrompt ==
    <<"You are a knowledgeable plant expert with expertise in Egyptian and Middle Eastern plants, climate, and gardening. Provide helpful, practical advice. Be concise and friendly.">>

SystemPrompt_Generic(ctx) == GenericPrompt

\* The system prompt of chat_with_ai, as the pieces of its f-string: the
\* literal text and the three values formatted into it.
SystemPrompt(ctx) ==
    IF Truthy(ctx)
    THEN <<"You are a helpful plant expert specializing in Egypt and Middle East.",
           "Current plant context:",
           "- Plant: ", Get(ctx, "plant_name", "Unknown"),
           "- Scientific Name: ", Get(ctx, "scientific_name", "N/A"),
           "- Family: ", Get(ctx, "family", "N/A"),
           "Provide practical, actionable advice suitable for Egyptian climate. Be concise, friendly, and focus on real-world tips.">>
    ELSE GenericPrompt

ChatPayload_WithHistory(system_prompt, user_message) ==
    <<[role |-> "system", content |-> system_prompt]>>
    \o [i \in 1..Len(chat_history) |->
           [role |-> chat_history[i].role,
            content |-> IF chat_history[i].content = PyNone THEN "None"
                        ELSE chat_history[i].content.value]]

\* payload["messages"], the same in the three blocks.
ChatPayload(system_prompt, user_message) ==
    <<[role |-> "system", content |-> system_prompt],
      [role |-> "user", content |-> user_message]>>

\* One "if KEY:" block of chat_with_ai.
ChatProvider(p, here, next) ==
    /\ op = "chat"
    /\ pc = here
    /\ IF ~KeySet(p)
       THEN /\ pc' = next
            /\ UNCHANGED <<lastResponse, ret, httpLog, requests>>
       ELSE \E o \in HttpOutcomes(ChatContents, ChatContents) :
              LET r == ChatBlock(o)
              IN  /\ lastResponse' = o
                  /\ httpLog' = Append(httpLog, p)
                  /\ requests' =
                        Append(requests,
                               [provider |-> p,
                                messages |->
                                  ChatPayload(SystemPrompt(context),
                                              userMessage)])
                  /\ IF r.raised
                     THEN pc' = "crashed" /\ UNCHANGED ret
                     ELSE IF Returned(r)
                          THEN ret' = r.value /\ pc' = "done"
                          ELSE pc' = next /\ UNCHANGED ret
    /\ UNCHANGED <<keys, op, image, result, adapterCalls, warnings,
                   userMessage, context>>
    /\ UNCHANGED <<session, replay>>

\* chat_with_ai(user_message, context) is entered; the pages pass
\* st.session_state.plant_context as the context.
EnterChat(user_message) ==
    /\ pc \in {"idle", "done"}
    /\ userMessage' = user_message
    /\ context' = plant_context
    /\ requests' = <<>>
    /\ op' = "chat"
    /\ pc' = "chat_groq"
    /\ image' = "none"
    /\ lastResponse' = NoRequest
    /\ result' = NoValue
    /\ ret' = NoValue
    /\ adapterCalls' = <<>>
    /\ httpLog' = <<>>
    /\ warnings' = <<>>
    /\ UNCHANGED <<keys, plant_context, detection_history, replay>>

\* A call of chat_with_ai alone.
StartChat ==
    /\ \E m \in UserMessages : EnterChat(m)
    /\ UNCHANGED chat_history

\* Try Groq first (fastest)
ChatGroq ==
    /\ pc = "chat_groq"
    /\ ChatProvider("Groq", "chat_groq", "chat_mistral")

\* Try Mistral as backup
ChatMistral ==
    /\ pc = "chat_mistral"
    /\ ChatProvider("Mistral", "chat_mistral", "chat_together")

\* Try Together AI as last resort
ChatTogether ==
    /\ pc = "chat_together"
    /\ ChatProvider("Together", "chat_together", "chat_end")

\* return "All chat APIs failed. ..."
ChatAllFailed ==
    /\ op = "chat"
    /\ pc = "chat_end"
    /\ ret' = PyStr(ChatFailedMessage)
    /\ pc' = "done"
    /\ UNCHANGED <<keys, op, image, lastResponse, result, adapterCalls,
                   httpLog, warnings, userMessage, context, requests>>
    /\ UNCHANGED <<session, replay>>

(***************************************************************************)
(* The program.  The keys are read once from the secrets, at start.        *)
(***************************************************************************)
Init ==
    /\ keys \in [Providers -> BOOLEAN]
    /\ op = "idle"
    /\ pc = "idle"
    /\ image = "none"
    /\ lastResponse = NoRequest
    /\ result = NoValue
    /\ ret = NoValue
    /\ adapterCalls = <<>>
    /\ httpLog = <<>>
    /\ warnings = <<>>
    /\ userMessage = ""
    /\ context = PyNone
    /\ requests = <<>>
    /\ plant_context = PyNone
    /\ chat_history = <<>>
    /\ detection_history = <<>>
    /\ mock = [p \in Providers |-> NoRequest]
    /\ prevCall = NoValue

Next ==
    \/ StartDetection
    \/ DetectMistral
    \/ DetectGroq
    \/ DetectTogether
    \/ DetectAllFailed
    \/ StartChat
    \/ ChatGroq
    \/ ChatMistral
    \/ ChatTogether
    \/ ChatAllFailed

Spec == Init /\ [][Next]_vars


(***************************************************************************)
(* The pages.  A click runs the handler of the page to its end; pc is      *)
(* "idle" between two clicks.  The locals of a handler are gone when it    *)
(* ends.                                                                   *)
(***************************************************************************)
\* Most entries of detection_history, and most exchanges of chat_history,
\* that a session is followed to.
MaxHistory == 2
MaxChat == 2

\* What the providers answer in a session.
SessionTexts == {<<"{", "plant:Tomato", "}">>, <<"{", "}">>, <<"prose">>}

SessionOutcomes ==
    {NoRequest, [kind |-> "raise", exc |-> "timeout"]}
    \cup {[kind |-> "response", status |-> 200,
           body |-> [kind |-> "text", content |-> c]] : c \in SessionTexts}

SessionChatOutcomes ==
    {[kind |-> "raise", exc |-> "timeout"],
     [kind |-> "response", status |-> 200, body |-> [kind |-> "null_content"]],
     [kind |-> "response", status |-> 200,
      body |-> [kind |-> "text", content |-> "Water it weekly."]]}

\* What the text input of the chat page may hold when Send is clicked.
UserInputs == {"", "How to grow tomatoes in Egypt?"}

\* questions, on the chat page.
questions ==
    <<"Best plants for Egyptian summer?", "How to deal with aphids?",
      "Indoor plants for apartments?", "When to fertilize roses?">>

\* datetime.now().strftime("%Y-%m-%d %H:%M"): the minutes of a session, in
\* the order of the clock.
Minutes == <<"2026-11-01 16:30", "2026-11-01 16:31">>

\* The minutes the clock may show when an entry is added to a history: none
\* before the minute of its last entry.
Now(history) ==
    {Minutes[j] : j \in {i \in 1..Len(Minutes) :
        \/ history = <<>>
        \/ \A k \in 1..Len(Minutes) :
              Minutes[k] = history[Len(history)].timestamp => k <= i}}

\* The four values the Plant Detection page reads of the data, kept as
\* st.session_state.plant_context.
PlantContext(data) ==
    [plant_name |-> Get(data, "plant_name", "Unknown Plant"),
     scientific_name |-> Get(data, "scientific_name", "N/A"),
     family |-> Get(data, "family", "N/A"),
     confidence |-> Get(data, "confidence", 0)]

\* The entry appended to st.session_state.detection_history.
HistoryEntry(data, now) ==
    [timestamp |-> now,
     plant_name |-> Get(data, "plant_name", "Unknown Plant"),
     scientific_name |-> Get(data, "scientific_name", "N/A"),
     type |-> "identification"]

\* The locals of a handler after its end.
HandlerEnds ==
    /\ op' = "idle"
    /\ pc' = "idle"
    /\ image' = "none"
    /\ lastResponse' = NoRequest
    /\ result' = NoValue
    /\ ret' = NoValue
    /\ adapterCalls' = <<>>
    /\ httpLog' = <<>>
    /\ warnings' = <<>>
    /\ userMessage' = ""
    /\ context' = PyNone
    /\ requests' = <<>>

\* The Plant Detection page and the AI Chat page end at st.stop() when no
\* key at all is set.
AnyKey == \E p \in Providers : keys[p]

\* Plant Detection page: if uploaded_file and identify_btn:
\*     result = smart_plant_detection(image)
IdentifyPlant ==
    /\ pc = "idle"
    /\ AnyKey
    /\ Len(detection_history) < MaxHistory
    /\ StartDetection

SessionMistral ==
    /\ pc = "mistral"
    /\ TryProvider("Mistral", "mistral", "groq", SessionTexts)
    /\ lastResponse' \in SessionOutcomes

SessionGroq ==
    /\ pc = "groq"
    /\ TryProvider("Groq", "groq", "together", SessionTexts)
    /\ lastResponse' \in SessionOutcomes

SessionTogether ==
    /\ pc = "together"
    /\ TryProvider("Together", "together", "end", SessionTexts)
    /\ lastResponse' \in SessionOutcomes

SaveDetection_ForgetsOnFailure ==
    /\ op = "detect"
    /\ pc = "done"
    /\ IF ~ret.error
       THEN /\ plant_context' = PlantContext(ret.data)
            /\ \E now \in Now(detection_history) :
                 detection_history' =
                     Append(detection_history, HistoryEntry(ret.data, now))
       ELSE /\ plant_context' = PyNone
            /\ UNCHANGED detection_history
    /\ HandlerEnds
    /\ UNCHANGED <<keys, chat_history, mock>>

\* Plant Detection page, after smart_plant_detection has returned:
\* if not result.get("error"): ... save to context, save to history
\* else: st.error(...)
SaveDetection ==
    /\ op = "detect"
    /\ pc = "done"
    /\ IF ~ret.error
       THEN /\ plant_context' = PlantContext(ret.data)
            /\ \E now \in Now(detection_history) :
                 detection_history' =
                     Append(detection_history, HistoryEntry(ret.data, now))
       ELSE UNCHANGED <<plant_context, detection_history>>
    /\ HandlerEnds
    /\ UNCHANGED <<keys, chat_history, mock>>

ShowDetection_NeverSaves ==
    /\ op = "detect"
    /\ pc = "done"
    /\ HandlerEnds
    /\ UNCHANGED <<keys, session, replay>>

ShowDetection ==
    /\ SaveDetection
    /\ UNCHANGED prevCall

\* The handler of Send and of a quick question, up to the call:
\* chat_history.append({'role': 'user', 'content': q}); chat_with_ai(q, ...)
AskChat(q) ==
    /\ chat_history' = Append(chat_history, [role |-> "user", content |-> PyStr(q)])
    /\ EnterChat(q)

SendMessage_AlsoEmpty ==
    /\ pc = "idle"
    /\ AnyKey
    /\ Len(chat_history) < 2 * MaxChat
    /\ \E user_input \in UserInputs : AskChat(user_input)

\* if send_btn and user_input:
SendMessage ==
    /\ pc = "idle"
    /\ AnyKey
    /\ Len(chat_history) < 2 * MaxChat
    /\ \E user_input \in UserInputs :
         IF user_input # "" THEN AskChat(user_input) ELSE UNCHANGED vars

\* if len(st.session_state.chat_history) == 0: ... if st.button(q, ...):
QuickQuestion ==
    /\ pc = "idle"
    /\ AnyKey
    /\ Len(chat_history) = 0
    /\ \E i \in 1..Len(questions) :
         questions[i] \in UserMessages /\ AskChat(questions[i])

SessionChatGroq ==
    /\ pc = "chat_groq"
    /\ ChatProvider("Groq", "chat_groq", "chat_mistral")
    /\ lastResponse' \in SessionChatOutcomes \cup {NoRequest}

SessionChatMistral ==
    /\ pc = "chat_mistral"
    /\ ChatProvider("Mistral", "chat_mistral", "chat_together")
    /\ lastResponse' \in SessionChatOutcomes \cup {NoRequest}

SessionChatTogether ==
    /\ pc = "chat_together"
    /\ ChatProvider("Together", "chat_together", "chat_end")
    /\ lastResponse' \in SessionChatOutcomes \cup {NoRequest}

\* chat_history.append({'role': 'assistant', 'content': response}); st.rerun()
ShowAnswer ==
    /\ op = "chat"
    /\ pc = "done"
    /\ chat_history' = Append(chat_history, [role |-> "assistant", content |-> ret])
    /\ HandlerEnds
    /\ UNCHANGED <<keys, plant_context, detection_history, replay>>

\* if len(chat_history) > 0: if st.button("Clear Chat"): chat_history = []
ClearChat ==
    /\ pc = "idle"
    /\ AnyKey
    /\ Len(chat_history) > 0
    /\ chat_history' = <<>>
    /\ UNCHANGED <<keys, op, pc, image, lastResponse, result, ret,
                   adapterCalls, httpLog, warnings, userMessage, context,
                   requests, plant_context, detection_history, replay>>

MyPlants_OldestFirst == detection_history

\* reversed(st.session_state.detection_history), as My Plants lists it.
MyPlants ==
    [i \in 1..Len(detection_history) |->
        detection_history[Len(detection_history) + 1 - i]]

ClearHistory_AlsoChat ==
    /\ pc = "idle"
    /\ detection_history # <<>>
    /\ detection_history' = <<>>
    /\ chat_history' = <<>>
    /\ UNCHANGED <<keys, op, pc, image, lastResponse, result, ret,
                   adapterCalls, httpLog, warnings, userMessage, context,
                   requests, plant_context, replay>>

\* My Plants page: the button is drawn when the history is not empty.
ClearHistory ==
    /\ pc = "idle"
    /\ detection_history # <<>>
    /\ detection_history' = <<>>
    /\ UNCHANGED <<keys, op, pc, image, lastResponse, result, ret,
                   adapterCalls, httpLog, warnings, userMessage, context,
                   requests, plant_context, chat_history, replay>>

SessionNext ==
    \/ IdentifyPlant
    \/ SessionMistral
    \/ SessionGroq
    \/ SessionTogether
    \/ DetectAllFailed
    \/ ShowDetection
    \/ SendMessage
    \/ QuickQuestion
    \/ SessionChatGroq
    \/ SessionChatMistral
    \/ SessionChatTogether
    \/ ChatAllFailed
    \/ ShowAnswer
    \/ ClearChat
    \/ ClearHistory

SpecSession == Init /\ [][SessionNext]_vars


(***************************************************************************)
(* Repeated identification.  Each provider gives the same answer every     *)
(* time it is asked (mock), and the page keeps the image and the result of *)
(* the call before (prevCall), so that two calls with the same image and   *)
(* the same answers can be compared.                                       *)
(***************************************************************************)
RepeatInit ==
    /\ keys \in [Providers -> BOOLEAN]
    /\ op = "idle"
    /\ pc = "idle"
    /\ image = "none"
    /\ lastResponse = NoRequest
    /\ result = NoValue
    /\ ret = NoValue
    /\ adapterCalls = <<>>
    /\ httpLog = <<>>
    /\ warnings = <<>>
    /\ userMessage = ""
    /\ context = PyNone
    /\ requests = <<>>
    /\ plant_context = PyNone
    /\ chat_history = <<>>
    /\ detection_history = <<>>
    /\ mock \in [Providers -> SessionOutcomes \ {NoRequest}]
    /\ prevCall = NoValue

\* The answer of provider p, when a request was sent to it.
Replayed(p) == httpLog' = httpLog \/ lastResponse' = mock[p]

RepeatMistral ==
    /\ pc = "mistral"
    /\ TryProvider("Mistral", "mistral", "groq", SessionTexts)
    /\ Replayed("Mistral")

RepeatGroq ==
    /\ pc = "groq"
    /\ TryProvider("Groq", "groq", "together", SessionTexts)
    /\ Replayed("Groq")

RepeatTogether ==
    /\ pc = "together"
    /\ TryProvider("Together", "together", "end", SessionTexts)
    /\ Replayed("Together")

RepeatShowDetection ==
    /\ SaveDetection
    /\ prevCall' = [image |-> image, ret |-> ret]

RepeatNext ==
    \/ IdentifyPlant
    \/ RepeatMistral
    \/ RepeatGroq
    \/ RepeatTogether
    \/ DetectAllFailed
    \/ RepeatShowDetection
    \/ ClearHistory

SpecRepeat == RepeatInit /\ [][RepeatNext]_vars


(***************************************************************************)
(* Properties.                                                             *)
(***************************************************************************)
Range(s) == {s[i] : i \in 1..Len(s)}

IsPrefix(s, t) == Len(s) <= Len(t) /\ SubSeq(t, 1, Len(s)) = s

Front(s) == SubSeq(s, 1, Len(s) - 1)

DetectDone == op = "detect" /\ pc = "done"

ChatDone == op = "chat" /\ pc = "done"

\* C1: in one call of smart_plant_detection the adapters called are a prefix
\* of <<Mistral, Groq, Together>> restricted to the providers whose key is
\* set; every call but the last has failed, so nothing is called after a
\* success; a call that returns success ends with the successful call, and a
\* call that returns failure has called every configured provider once.
C1_CallsInPriorityOrderUntilSuccess ==
    op = "detect" =>
        LET want == Configured(<<"Mistral", "Groq", "Together">>, keys)
        IN  /\ IsPrefix(adapterCalls, want)
            /\ pc # "crashed"
            /\ pc # "done" => warnings = adapterCalls
            /\ pc = "done" =>
                 IF ret.error
                 THEN adapterCalls = want /\ warnings = want
                 ELSE adapterCalls # <<>> /\ warnings = Front(adapterCalls)

C1_Witness ==
    /\ DetectDone
    /\ \A p \in Providers : keys[p]
    /\ adapterCalls = <<"Mistral", "Groq">>
    /\ ~ret.error

\* C2: a provider whose key is absent is never posted a request, by
\* smart_plant_detection or by chat_with_ai, its adapter is not called and no
\* failure is reported for it.
C2_AbsentKeyNeverCalled ==
    \A p \in Providers :
        ~keys[p] =>
            /\ p \notin Range(httpLog)
            /\ p \notin Range(adapterCalls)
            /\ p \notin Range(warnings)

C2_Witness ==
    /\ DetectDone
    /\ ~keys["Mistral"] /\ keys["Groq"] /\ ~keys["Together"]
    /\ httpLog = <<"Groq">>
    /\ warnings = <<"Groq">>
    /\ ret.error

\* The source labels an adapter puts on its results.
SourceLabels(p) ==
    CASE p = "Mistral" -> {"Mistral Pixtral Vision", "Mistral Pixtral"}
      [] p = "Groq" -> {"Groq Llama 11B Vision", "Groq Llama Vision"}
      [] p = "Together" -> {"Together AI"}

\* C3: when an earlier provider has failed and a later one succeeds,
\* smart_plant_detection returns the later adapter's result as it is, and the
\* result's source is a label of that provider and of no failed one.
C3_ReturnsSecondProvidersResult ==
    (DetectDone /\ ~ret.error /\ Len(adapterCalls) >= 2) =>
        /\ ret = result
        /\ ret.source \in SourceLabels(adapterCalls[Len(adapterCalls)])
        /\ \A q \in Range(warnings) : ret.source \notin SourceLabels(q)

C3_Witness ==
    /\ DetectDone
    /\ adapterCalls = <<"Mistral", "Groq">>
    /\ warnings = <<"Mistral">>
    /\ ~ret.error
    /\ ret.source = "Groq Llama 11B Vision"
    /\ ret.data.plant_name = "Rose"

\* C4: smart_plant_detection returns an error exactly when every configured
\* provider's adapter call returned an error (also when none is configured);
\* the error is the one aggregated failure with the all-failed message and no
\* data, and a success carries data and no message.
C4_ErrorIffAllConfiguredFailed ==
    DetectDone =>
        LET want == Configured(<<"Mistral", "Groq", "Together">>, keys)
        IN  /\ ret.error <=> (adapterCalls = want /\ warnings = want)
            /\ ret.error =>
                 ret = [error |-> TRUE, message |-> AllFailedMessage]
            /\ ~ret.error =>
                 "data" \in DOMAIN ret /\ "message" \notin DOMAIN ret

C4_Witness ==
    /\ DetectDone
    /\ ret.error
    /\ warnings = <<"Mistral", "Groq", "Together">>
    /\ image = "RGB"

\* The HTTP outcomes C5 names: an exception of requests.post (a timeout
\* among them), a status outside 200..299, a 2xx answer without usable choices.
FailedOutcome(o) ==
    \/ o.kind = "raise"
    \/ /\ o.kind = "response"
       /\ \/ o.status \notin 200..299
          \/ o.body.kind # "text"

PcsAfter(p) ==
    CASE p = "Mistral" -> {"groq", "together", "end", "done"}
      [] p = "Groq" -> {"together", "end", "done"}
      [] p = "Together" -> {"end", "done"}

\* C5: for every failed HTTP outcome the adapter returns {error: true,
\* message: string} and raises nothing, a failure is reported for it and
\* smart_plant_detection goes on to the next block; no exception leaves
\* smart_plant_detection.
C5_AdapterFailureIsAValue ==
    op = "detect" =>
        /\ pc # "crashed"
        /\ (adapterCalls # <<>> /\ FailedOutcome(lastResponse)) =>
             /\ DOMAIN result = {"error", "message"}
             /\ result.error = TRUE
             /\ result.message \in STRING
             /\ warnings = adapterCalls
             /\ pc \in PcsAfter(adapterCalls[Len(adapterCalls)])
             /\ pc = "done" => ret.error

C5_Witness ==
    /\ op = "detect"
    /\ pc = "together"
    /\ adapterCalls = <<"Mistral", "Groq">>
    /\ lastResponse.kind = "response"
    /\ lastResponse.status = 503
    /\ result.message = "API Error: 503 - rate limit"


\* A 200 answer whose choices carry a generated text.
TextAnswer(o) == o.kind = "response" /\ o.status = 200 /\ o.body.kind = "text"

\* The adapter called last has received lastResponse and result is what it
\* returned.
AdapterAnswered == op = "detect" /\ adapterCalls # <<>>

\* The text, cleaned of fence markers, holds a {...} substring that parses.
ParsesAsObject(text) ==
    LET json_match == SearchObject(CleanText(text))
    IN  json_match # <<>> /\ JsonLoads(json_match).ok

ParsedObject(text) == JsonLoads(SearchObject(CleanText(text))).value

\* C6: when the answer text parses as a JSON object, every adapter returns
\* the object with plant_name "Detected Plant" and a confidence in 75..85
\* filled in where the object lacks them, so the data of every such result
\* holds plant_name and confidence.
C6_ParsedObjectGetsDefaults ==
    (/\ AdapterAnswered
     /\ TextAnswer(lastResponse)
     /\ ParsesAsObject(lastResponse.body.content)) =>
        LET obj == ParsedObject(lastResponse.body.content)
            d == result.data
        IN  /\ ~result.error
            /\ DOMAIN d = DOMAIN obj \cup {"plant_name", "confidence"}
            /\ \A k \in DOMAIN obj : d[k] = obj[k]
            /\ "plant_name" \notin DOMAIN obj => d.plant_name = "Detected Plant"
            /\ "confidence" \notin DOMAIN obj => d.confidence \in 75..85

RECURSIVE ClosingBrace(_, _, _)
ClosingBrace(s, i, depth) ==
    IF i > Len(s) THEN 0
    ELSE IF s[i] = "{" THEN ClosingBrace(s, i + 1, depth + 1)
    ELSE IF s[i] = "}"
         THEN IF depth = 1 THEN i ELSE ClosingBrace(s, i + 1, depth - 1)
    ELSE ClosingBrace(s, i + 1, depth)

\* The first balanced {...} substring of s; <<>> if there is none.
FirstBalancedObject(s) ==
    LET opens == {i \in 1..Len(s) : s[i] = "{"}
    IN  IF opens = {} THEN <<>>
        ELSE LET first == CHOOSE i \in opens : \A k \in opens : i <= k
                 close == ClosingBrace(s, first + 1, 1)
             IN  IF close = 0 THEN <<>> ELSE SubSeq(s, first, close)

\* C8: when the first balanced {...} substring of the cleaned text is a valid
\* JSON object, whatever follows it, the result carries the fields of that
\* object and is no text-only result.
C8_FirstBalancedObjectIsParsed ==
    (/\ AdapterAnswered
     /\ TextAnswer(lastResponse)
     /\ LET b == FirstBalancedObject(CleanText(lastResponse.body.content))
        IN  b # <<>> /\ JsonLoads(b).ok) =>
        LET obj == JsonLoads(FirstBalancedObject(
                       CleanText(lastResponse.body.content))).value
        IN  /\ ~result.error
            /\ "description" \notin DOMAIN result.data
            /\ \A k \in DOMAIN obj :
                 k \in DOMAIN result.data /\ result.data[k] = obj[k]

ChatPcsAfter(p) ==
    CASE p = "Groq" -> {"chat_mistral", "chat_together", "chat_end", "done"}
      [] p = "Mistral" -> {"chat_together", "chat_end", "done"}
      [] p = "Together" -> {"chat_end", "done"}

\* C9: in chat_with_ai a generated text shorter than 10 characters counts as
\* a failure of its provider: control goes on to the next block and the short
\* text is not what chat_with_ai returns.
C9_ShortChatAnswerFallsBack ==
    (/\ op = "chat"
     /\ httpLog # <<>>
     /\ TextAnswer(lastResponse)
     /\ StrLen(lastResponse.body.content) < 10) =>
        /\ pc \in ChatPcsAfter(httpLog[Len(httpLog)])
        /\ pc = "done" => ret # PyStr(lastResponse.body.content)

\* The failures C10 names: an exception of the request (a timeout among
\* them), a status other than 200, an answer without choices.
ChatFailure(o) ==
    \/ o.kind = "raise"
    \/ /\ o.kind = "response"
       /\ \/ o.status # 200
          \/ o.body.kind \in {"not_json", "empty_object", "error_object",
                              "empty_choices", "no_message"}

\* C10: when every configured chat provider has failed, or none is
\* configured, chat_with_ai returns the non-empty string that tells the user
\* to check the API keys; no exception leaves chat_with_ai.
C10_ChatFailureIsAString ==
    op = "chat" =>
        /\ pc # "crashed"
        /\ (pc = "done" /\ (httpLog = <<>> \/ ChatFailure(lastResponse))) =>
             /\ ret = PyStr(ChatFailedMessage)
             /\ StrLen(ret.value) > 0
             /\ httpLog = Configured(<<"Groq", "Mistral", "Together">>, keys)

C10_Witness ==
    /\ ChatDone
    /\ httpLog = <<"Groq", "Mistral", "Together">>
    /\ lastResponse.kind = "raise"
    /\ lastResponse.exc = "timeout"
    /\ ret = PyStr(ChatFailedMessage)


(***************************************************************************)
(* Properties of the pages (SpecSession).                                  *)
(***************************************************************************)
PromptLabels == {"- Plant: ", "- Scientific Name: ", "- Family: "}

\* The piece of a prompt that follows a label.
Labelled(prompt, label, value) ==
    \E j \in 1..Len(prompt) - 1 : prompt[j] = label /\ prompt[j + 1] = value

\* C11: during a chat call the context is the session's plant_context and one
\* request is logged for every provider tried; with a context the system
\* prompt of each request holds the context's plant name, scientific name and
\* family after their labels; without one it is the generic plant-expert
\* prompt, which holds no plant field.
C11_SystemPromptCarriesContext ==
    op = "chat" =>
        /\ context = plant_context
        /\ Len(requests) = Len(httpLog)
        /\ \A i \in 1..Len(requests) :
             LET prompt == requests[i].messages[1].content
             IN  /\ requests[i].provider = httpLog[i]
                 /\ requests[i].messages[1].role = "system"
                 /\ IF context # PyNone
                    THEN /\ Labelled(prompt, "- Plant: ", context.plant_name)
                         /\ Labelled(prompt, "- Scientific Name: ",
                                     context.scientific_name)
                         /\ Labelled(prompt, "- Family: ", context.family)
                    ELSE /\ prompt = GenericPrompt
                         /\ Range(prompt) \cap PromptLabels = {}

\* A chat call with the Tomato context in which two providers were tried.
C11_Witness ==
    /\ op = "chat"
    /\ context # PyNone
    /\ context.plant_name = "Tomato"
    /\ context.scientific_name = "Solanum lycopersicum"
    /\ Len(requests) = 2

\* C12: every request of a chat call holds two messages, the system prompt
\* and the user message of this call, which is the last entry of
\* chat_history; no content of chat_history is a piece of the system prompt.
C12_RequestHoldsOnlyLatestMessage ==
    op = "chat" =>
        \A i \in 1..Len(requests) :
            LET messages == requests[i].messages
            IN  /\ Len(messages) = 2
                /\ messages[1].role = "system"
                /\ messages[1].content = SystemPrompt(context)
                /\ messages[2] = [role |-> "user", content |-> userMessage]
                /\ chat_history # <<>>
                /\ chat_history[Len(chat_history)] =
                       [role |-> "user", content |-> PyStr(userMessage)]
                /\ \A k \in 1..Len(chat_history) :
                       \/ chat_history[k].content = PyNone
                       \/ chat_history[k].content.value
                              \notin Range(messages[1].content)

\* A request of the second exchange, whose question differs from the first.
C12_Witness ==
    /\ op = "chat"
    /\ Len(chat_history) = 3
    /\ chat_history[1].content # chat_history[3].content
    /\ requests # <<>>

\* The step in which the Plant Detection page shows a result.
DetectionShown == op = "detect" /\ pc = "done" /\ pc' = "idle"

\* A field of the data as the page reads it.
PageField(data, field) ==
    IF field \in DOMAIN data THEN data[field]
    ELSE CASE field = "plant_name" -> "Unknown Plant"
           [] field = "scientific_name" -> "N/A"
           [] field = "family" -> "N/A"
           [] field = "confidence" -> 0

ContextFields == {"plant_name", "scientific_name", "family", "confidence"}

\* C14: plant_context is None at the start of a session.  The step that shows
\* a successful detection sets it to the plant_name, scientific_name, family
\* and confidence of that result (what the page shows for a field the data
\* lacks); every other step (a failed detection, a chat send, Clear Chat,
\* Clear History) leaves it as it is.  So it is None until a detection has
\* succeeded and holds the most recent successful detection afterwards.
C14_ContextIsLastSuccessfulDetection ==
    /\ plant_context = PyNone
    /\ [][IF DetectionShown /\ ~ret.error
          THEN /\ DOMAIN plant_context' = ContextFields
               /\ \A f \in ContextFields :
                     plant_context'[f] = PageField(ret.data, f)
          ELSE plant_context' = plant_context]_vars
    /\ [](detection_history # <<>> =>
            /\ plant_context # PyNone
            /\ plant_context.plant_name =
                   detection_history[Len(detection_history)].plant_name)

\* A text-only detection has overwritten the Tomato context, and a chat
\* exchange came after it.
C14_Witness ==
    /\ pc = "idle"
    /\ plant_context # PyNone
    /\ plant_context.plant_name = "Detected Plant"
    /\ Len(detection_history) = 2
    /\ detection_history[1].plant_name = "Tomato"
    /\ Len(chat_history) = 2

\* C15: every step either leaves chat_history a prefix of its new value, or
\* is the Clear Chat handler, which empties it; so between two clears the
\* history only grows at its end, and nothing but Clear Chat empties it.
C15_ChatHistoryAppendOnly ==
    [][\/ IsPrefix(chat_history, chat_history')
       \/ ClearChat /\ chat_history' = <<>>]_vars

\* Two exchanges are in the history, and a detection and Clear History have
\* happened in the same session.
C15_Witness ==
    /\ pc = "idle"
    /\ Len(chat_history) = 4
    /\ plant_context # PyNone
    /\ detection_history = <<>>

\* C16: detection_history starts empty.  The step that shows a successful
\* detection appends one entry to it, of type identification with the plant
\* name and scientific name the page read from that result, and that entry
\* becomes the first of the My Plants list, in front of the entries listed
\* before; the Clear History handler empties it; every other step, the
\* showing of a failed detection among them, leaves it as it is.
C16_HistoryGainsOneEntryPerSuccess ==
    /\ detection_history = <<>>
    /\ [][IF DetectionShown /\ ~ret.error
          THEN \E now \in Now(detection_history) :
                 LET entry == [timestamp |-> now,
                               plant_name |-> PageField(ret.data, "plant_name"),
                               scientific_name |->
                                   PageField(ret.data, "scientific_name"),
                               type |-> "identification"]
                 IN  /\ detection_history' = Append(detection_history, entry)
                     /\ MyPlants' = <<entry>> \o MyPlants
          ELSE IF ClearHistory
               THEN detection_history' = <<>>
               ELSE detection_history' = detection_history]_vars

\* Two detections of different plants are in the history, the later one
\* listed first.
C16_Witness ==
    /\ pc = "idle"
    /\ Len(detection_history) = 2
    /\ detection_history[1].plant_name = "Tomato"
    /\ detection_history[2].plant_name = "Unknown Plant"
    /\ MyPlants[1] = detection_history[2]

\* A 200 answer of the adapter called last whose text holds no object that
\* parses.
TextOnlyAnswer ==
    /\ AdapterAnswered
    /\ TextAnswer(lastResponse)
    /\ ~ParsesAsObject(lastResponse.body.content)

\* C17: when the adapter called last got a 200 answer with a text that does
\* not parse, smart_plant_detection has returned that adapter's result, a
\* success named "Detected Plant"; the only step from there is the page's,
\* which calls no further provider, sets plant_context to plant_name
\* "Detected Plant" and appends an entry of that name to detection_history.
C17_TextOnlyResultIsSaved ==
    /\ [](TextOnlyAnswer =>
            /\ pc = "done"
            /\ ret = result
            /\ ~ret.error
            /\ ret.data.plant_name = "Detected Plant")
    /\ [][TextOnlyAnswer =>
            /\ pc' = "idle"
            /\ adapterCalls' = <<>>
            /\ plant_context' # PyNone
            /\ plant_context'.plant_name = "Detected Plant"
            /\ Len(detection_history') = Len(detection_history) + 1
            /\ detection_history'[Len(detection_history')].plant_name =
                   "Detected Plant"]_vars

\* The first provider answered with prose while the two after it had their
\* keys set, and the call returned; the context still holds the plant
\* identified before.
C17_Witness ==
    /\ TextOnlyAnswer
    /\ adapterCalls = <<"Mistral">>
    /\ keys["Groq"]
    /\ keys["Together"]
    /\ plant_context # PyNone
    /\ plant_context.plant_name = "Tomato"

\* The roles of a history of whole exchanges: user, assistant, user, ...
Alternates(history) ==
    /\ Len(history) % 2 = 0
    /\ \A i \in 1..Len(history) :
         history[i].role = IF i % 2 = 1 THEN "user" ELSE "assistant"

\* chat_with_ai went through every block without a return.
AllChatFailed ==
    /\ ChatDone
    /\ \/ httpLog = <<>>
       \/ ChatBlock(lastResponse) = FallThrough

\* C18: a chat call is entered only by a step that appends the user message,
\* which is not empty, to chat_history; the history stays as it is during the
\* call; the step that ends the send appends the assistant message holding
\* what chat_with_ai returned, which is the failure string when every block
\* failed.  So no call is made for an empty input, and between two handlers
\* chat_history has even length with roles alternating from user.
C18_SendAppendsUserThenAssistant ==
    /\ [](pc = "idle" => Alternates(chat_history))
    /\ [](op = "chat" =>
            /\ userMessage # ""
            /\ Alternates(Front(chat_history))
            /\ chat_history[Len(chat_history)] =
                   [role |-> "user", content |-> PyStr(userMessage)])
    /\ [](AllChatFailed => ret = PyStr(ChatFailedMessage))
    /\ [][/\ (op # "chat" /\ op' = "chat") =>
               chat_history' =
                   Append(chat_history,
                          [role |-> "user", content |-> PyStr(userMessage')])
          /\ (op = "chat" /\ op' = "chat") => chat_history' = chat_history
          /\ (op = "chat" /\ op' # "chat") =>
               /\ pc = "done"
               /\ chat_history' =
                      Append(chat_history,
                             [role |-> "assistant", content |-> ret])
          /\ (op # "chat" /\ op' # "chat") =>
               chat_history' \in {chat_history, <<>>}]_vars

\* The first send ended with the failure string as the assistant message,
\* the second with an answer.
C18_Witness ==
    /\ pc = "idle"
    /\ Len(chat_history) = 4
    /\ chat_history[2] =
           [role |-> "assistant", content |-> PyStr(ChatFailedMessage)]
    /\ chat_history[4] =
           [role |-> "assistant", content |-> PyStr("Water it weekly.")]

(***************************************************************************)
(* Properties of repeated identification (SpecRepeat).                     *)
(***************************************************************************)
\* C13: when smart_plant_detection returns for an image it was called with
\* just before, with the same keys and the same answer from every provider,
\* its result equals the result of the call before in every field, whatever
\* the first call left in plant_context and detection_history.
C13_SameCallSameResult ==
    (DetectDone /\ prevCall # NoValue /\ prevCall.image = image) =>
        ret = prevCall.ret

\* A second call that succeeded at the second provider, after the first one
\* has set plant_context and added to detection_history.
C13_Witness ==
    /\ DetectDone
    /\ prevCall # NoValue
    /\ prevCall.image = image
    /\ ~ret.error
    /\ Len(adapterCalls) = 2
    /\ plant_context # PyNone
    /\ Len(detection_history) = 1

====
